---- MODULE Spec2Model ----
(***************************************************************************)
(* Cloudinary -> R2 migration scripts of the Strapi deployment.            *)
(* The model follows scripts/migrate-to-r2.js (main, the p-limit worker    *)
(* body, migrateFile, loadState/saveState), utils/db-helper.js (one shared *)
(* connection with BEGIN/COMMIT/ROLLBACK and the row rewrite) and          *)
(* the R2Uploader class (fileExists, upload, getPublicUrl).                *)
(* Every await of the code is a point where another worker may run, so     *)
(* each action below is the synchronous stretch of code between two awaits.*)
(* A database call takes effect when it is issued: better-sqlite3 runs it  *)
(* synchronously, and the single pg connection runs its queries in the     *)
(* order they were issued. A continuation whose await is already settled   *)
(* (after a synchronous sqlite call, or before the next call is issued)    *)
(* runs before any network answer is handled.                              *)
(* The backup script (BackupHelper: snapshot, JSON and CSV export, report) *)
(* and restore-from-backup.js (listBackups, prompt, restoreSQLite /        *)
(* restorePostgreSQL) are modelled in the second specification BackupSpec, *)
(* together with one migration that may run between them.                  *)
(***************************************************************************)
EXTENDS Integers, Sequences, FiniteSets, TLC

\* ---------------------------------------------------------------- bounds
NumFiles == 2        \* rows of the files table
MaxRuns == 2         \* migrate invocations in one behaviour
MaxKills == 1        \* process terminations from outside
MaxEnvChanges == 2   \* changes of the outside world (providers, database)

\* ------------------------------------------------------ program constants
CONCURRENCY == 3

\* the two backends of DBHelper
Clients == {"sqlite", "postgres"}

\* -------------------------------------------------------------- variables
VARIABLES
  client,      \* DBHelper.client
  src,         \* Cloudinary: id -> "ok" | "missing" (404) | "down" (other error)
  dst,         \* R2 service: "ok" | "putFails" | "down"
  dbFail,      \* ids whose UPDATE statement the database rejects
  table,       \* committed rows of the files table: id -> [url, provider]
  tx,          \* the one connection's transaction: [open, aborted, pending]
  r2,          \* keys present in the R2 bucket
  stateFile,   \* migration-state.json: [exists, text]
  state,       \* main's in-memory state object
  mainPc,      \* "idle" | "running"
  exitCode,    \* exit code of the last invocation, -1 before the first
  dryRun,      \* --dry-run of the current invocation
  files,       \* main's `files`: the outstanding rows, in id order
  pc,          \* position of each limit() task
  result,      \* migrateFile's returned status of each task
  r2Url,       \* migrateFile's r2Url of each task
  processed,   \* main's local counter `processed`
  hist,        \* observation of the run: call counts, outcomes, previous runs
  limits,      \* how many invocations, kills, outside changes, transient
               \* download errors and backups may happen
  config,      \* the uploader's environment: [publicUrl, endpoint]
  ready,       \* tasks whose pending await is already settled
  clock,       \* the wall clock, in the unit of the timestamps' last field
  backupDir,   \* BACKUP_DIR: the files in it, [name, content]
  preRestore,  \* <dbPath>.pre-restore: [exists, rows]
  backup,      \* the backup script: position, paths it wrote, exit code
  restore      \* the restore script: position, chosen file, answer, exit code

\* the variables of the backup and restore scripts
opsVars == <<clock, backupDir, preRestore, backup, restore>>

\* the variables of the migration script and of its environment
migVars == <<ready, config, limits, client, src, dst, dbFail, table, tx, r2,
             stateFile, state, mainPc, exitCode, dryRun, files, pc, result,
             r2Url, processed, hist>>

vars == <<migVars, opsVars>>

\* ------------------------------------------------------------------ data
\* The files table is a sequence of rows, row i having id i.
Ids == DOMAIN table

\* A row as the application stored it, still on Cloudinary. hash and ext
\* never change. With `shared`, two neighbouring ids have the same hash, so
\* their R2 keys collide (content-addressed keys).
HashOf(id, shared) == IF shared THEN (id + 1) \div 2 ELSE id
ExtOf(id) == ".png"
SourceUrl(id) == <<"https://res.cloudinary.com", id, ExtOf(id)>>
SourceRow(id, shared) ==
  [id |-> id, hash |-> HashOf(id, shared), ext |-> ExtOf(id),
   url |-> SourceUrl(id), provider |-> "cloudinary"]

NoUrl == <<>>
NoResult == [status |-> "none", detail |-> ""]

\* const key = `${file.hash}${file.ext}`
Key(file) == <<file.hash, file.ext>>

\* the environments of R2Uploader.fromEnv: R2_PUBLIC_URL set or not, and
\* AWS_ENDPOINT of the form https://{accountId}.r2.cloudflarestorage.com
\* ("r2") or of any other form ("other"). fromEnv only copies the values.
Configs ==
  {[publicUrl |-> TRUE, endpoint |-> "r2"],
   [publicUrl |-> FALSE, endpoint |-> "r2"],
   [publicUrl |-> FALSE, endpoint |-> "other"]}

\* R2Uploader.extractAccountId: the account id when the endpoint matches the
\* pattern, else it throws 'Invalid R2 endpoint format'
extractAccountId == [ok |-> config.endpoint = "r2"]

\* getPublicUrl throws exactly when it has to fall back to the endpoint and
\* extractAccountId throws
PublicUrlThrows == ~config.publicUrl /\ ~extractAccountId.ok

\* R2Uploader.getPublicUrl: `${publicUrl}/${key}` with a custom domain, else
\* `https://${bucket}.${accountId}.r2.cloudflarestorage.com/${key}`
PublicUrlUnder(c, key) ==
  IF c.publicUrl THEN <<"https://cdn">> \o key
  ELSE <<"https://bucket.account.r2.cloudflarestorage.com">> \o key

getPublicUrl(key) == PublicUrlUnder(config, key)

\* r2Url = `[DRY-RUN] ${uploader.getPublicUrl(key)}`
DryRunUrl(key) == <<"[DRY-RUN]">> \o getPublicUrl(key)

\* ids in ascending order that satisfy P: the ORDER BY id of the queries
RECURSIVE OrderedFrom(_, _)
OrderedFrom(i, S) ==
  IF i > Len(table) THEN <<>>
  ELSE (IF i \in S THEN <<i>> ELSE <<>>) \o OrderedFrom(i + 1, S)

\* DBHelper.getCloudinaryFiles:
\*   SELECT * FROM files WHERE provider = 'cloudinary' ORDER BY id
\* (main calls it before any transaction is open, so it reads committed rows)
getCloudinaryFiles ==
  LET S == {i \in Ids : table[i].provider = "cloudinary"}
      o == OrderedFrom(1, S)
  IN  [k \in 1..Len(o) |-> table[o[k]]]

\* ids of the entries of one ledger collection
IdsOf(coll) == {coll[k].id : k \in 1..Len(coll)}

\* -------------------------------------------------------------- the ledger
\* loadState's fresh object (the state file does not exist)
FreshState ==
  [migration_id |-> hist.runNo + 1,
   end_time |-> "null",
   status |-> "in_progress",
   statistics |-> [total_files |-> 0, processed |-> 0, success |-> 0,
                   failed |-> 0, skipped |-> 0],
   processed_files |-> <<>>,
   failed_files |-> <<>>,
   skipped_files |-> <<>>]

\* The file's text is the JSON of one state object, <<st>>, or nothing at
\* all, <<>>: fs.writeFileSync opens the file truncating it and then writes,
\* so a process that dies in between leaves an empty file.
NoFile == [exists |-> FALSE, text |-> <<>>]
Truncated == [exists |-> TRUE, text |-> <<>>]

\* JSON.parse(fs.readFileSync(STATE_FILE)) throws on an empty text
Parses(f) == f.text # <<>>

\* loadState: the parsed file when it exists, else a fresh object
loadState == IF stateFile.exists THEN stateFile.text[1] ELSE FreshState

\* a flush that writes the snapshot taken before the update in memory
saveStateBeforeUpdate(st) == [exists |-> TRUE, text |-> <<state>>]

\* saveState: fs.writeFileSync(STATE_FILE, JSON.stringify(state)), the whole
\* object replaces the file content
saveState(st) == [exists |-> TRUE, text |-> <<st>>]

\* a filter that forgets the ledger: every Cloudinary row is outstanding
OutstandingIgnoresLedger(allFiles, st) == allFiles

\* main, lines 183-184: rows whose id is not in state.processed_files
Outstanding(allFiles, st) ==
  LET processedIds == IdsOf(st.processed_files)
  IN  SelectSeq(allFiles, LAMBDA f : f.id \notin processedIds)

\* a state update that keeps no entry for a skipped record
UpdateStateDropsSkipped(st, file, res, url) ==
  CASE res.status = "success" ->
         [st EXCEPT !.statistics.success = @ + 1,
                    !.processed_files = Append(@,
                       [id |-> file.id, status |-> "success",
                        original_url |-> file.url, new_url |-> url])]
    [] res.status = "failed" ->
         [st EXCEPT !.statistics.failed = @ + 1,
                    !.failed_files = Append(@,
                       [id |-> file.id, original_url |-> file.url,
                        status |-> "failed", error |-> res.detail])]
    [] OTHER -> st

\* the worker's "Update state" block, lines 217-241, for the result of
\* migrateFile
UpdateState(st, file, res, url) ==
  CASE res.status = "success" ->
         [st EXCEPT !.statistics.success = @ + 1,
                    !.processed_files = Append(@,
                       [id |-> file.id, status |-> "success",
                        original_url |-> file.url, new_url |-> url])]
    [] res.status = "failed" ->
         [st EXCEPT !.statistics.failed = @ + 1,
                    !.failed_files = Append(@,
                       [id |-> file.id, original_url |-> file.url,
                        status |-> "failed", error |-> res.detail])]
    [] res.status = "skipped" ->
         [st EXCEPT !.statistics.skipped = @ + 1,
                    !.skipped_files = Append(@,
                       [id |-> file.id, status |-> "skipped",
                        reason |-> res.detail, original_url |-> file.url])]
    [] OTHER -> st

\* the worker's catch block, lines 257-264
UpdateStateCaught(st, file) ==
  [st EXCEPT !.statistics.failed = @ + 1,
             !.failed_files = Append(@,
                [id |-> file.id, original_url |-> file.url,
                 status |-> "failed", error |-> "transaction"])]

\* processed++; state.statistics.processed = processed
CountProcessed(st, n) == [st EXCEPT !.statistics.processed = n]

\* main, lines 276-277
FinalState(st) ==
  [st EXCEPT !.end_time = "set",
             !.status = IF st.statistics.failed > 0
                        THEN "completed_with_errors" ELSE "completed"]

\* ------------------------------------------------------------- the source
\* the status axios.head(file.url) ends with: 200, 404, or 0 for an error
\* without a 404 response (timeout, network error, 5xx)
headStatus(source) ==
  CASE source = "ok" -> 200
    [] source = "missing" -> 404
    [] OTHER -> 0

\* downloadFromCloudinary(url, retries = 3), and the factor of its delay
\* setTimeout(resolve, 1000 * (i + 1)), in milliseconds
Retries == 3
DelayUnit == 1000

\* axios.get(url) of iteration i (from 0): answered when the source holds the
\* asset and the `failing` first requests (timeouts, resets) are over
AttemptOk(source, failing, i) == source = "ok" /\ i >= failing

\* the loop of downloadFromCloudinary from iteration i on, `waits` being the
\* delays slept so far: the buffer at the first answered request; after a
\* failed request the error when i = retries - 1, else the delay and the
\* next iteration (the loop is never left at its end for retries >= 1)
RECURSIVE downloadLoop(_, _, _, _)
downloadLoop(i, source, failing, waits) ==
  IF i >= Retries THEN [ok |-> FALSE, attempts |-> i, waits |-> waits]
  ELSE IF AttemptOk(source, failing, i)
  THEN [ok |-> TRUE, attempts |-> i + 1, waits |-> waits]
  ELSE IF i = Retries - 1
  THEN [ok |-> FALSE, attempts |-> i + 1, waits |-> waits]
  ELSE downloadLoop(i + 1, source, failing,
                    Append(waits, DelayUnit * (i + 1)))

\* a download that sleeps and tries once more after the last failed attempt
downloadOneMoreAttempt(source, failing) ==
  LET d == downloadLoop(0, source, failing, <<>>)
  IN  IF d.ok THEN d
      ELSE [ok |-> AttemptOk(source, failing, Retries),
            attempts |-> Retries + 1,
            waits |-> Append(d.waits, DelayUnit * Retries)]

\* downloadFromCloudinary(url): axios.get, retried; the buffer, or the
\* error thrown after the last attempt
downloadFromCloudinary(source, failing) ==
  downloadLoop(0, source, failing, <<>>)

\* ------------------------------------------------------------ the uploader
\* R2Uploader.fileExists(key): HeadObject; not-found is false, every other
\* error is thrown. `service` is the state of the R2 endpoint.
fileExists(service, store, key) ==
  IF service = "down" THEN [ok |-> FALSE, exists |-> FALSE]
  ELSE [ok |-> TRUE, exists |-> key \in store]

\* an upload whose catch swallows the transport error and still hands back
\* the public url
uploadSwallowsError(service, store, key) ==
  IF service = "ok"
  THEN [ok |-> TRUE, store |-> store \cup {key}, url |-> getPublicUrl(key)]
  ELSE [ok |-> TRUE, store |-> store, url |-> getPublicUrl(key)]

\* R2Uploader.upload({buffer, key, contentType}): PutObject (or the
\* multipart Upload), then the public url; every error is rethrown, the one
\* of getPublicUrl too, which is thrown after the object has been stored.
upload(service, store, key) ==
  IF service = "ok"
  THEN IF PublicUrlThrows
       THEN [ok |-> FALSE, store |-> store \cup {key}, url |-> NoUrl]
       ELSE [ok |-> TRUE, store |-> store \cup {key},
             url |-> getPublicUrl(key)]
  ELSE [ok |-> FALSE, store |-> store, url |-> NoUrl]

\* ------------------------------------------------- migrateFile's decisions
\* a transfer decision that forgets the destination probe
NeedsTransferIgnoresExists(dry, exists) == ~dry

\* line 112: if (!dryRun && !exists)
NeedsTransfer(dry, exists) == ~dry /\ ~exists

\* a rewrite that is not guarded by the dry-run flag
WritesDatabaseAlways(dry) == TRUE

\* line 130: if (!dryRun) await db.updateFileToR2(...)
WritesDatabase(dry) == ~dry

\* lines 207, 213, 251: if (!dryRun) await db.beginTransaction() / commit() /
\* rollback()
UsesTransaction(dry) == ~dry

\* ------------------------------------------------------------ the database
\* All workers share the one DBHelper of main (const db = await
\* DBHelper.init(...)), hence one connection and one transaction state.
\* pending[id] is the url an uncommitted UPDATE gave row id, NoUrl if none.
NoTx == [open |-> FALSE, aborted |-> FALSE, pending |-> [i \in Ids |-> NoUrl]]

\* the SET clause of updateFileToR2: url = ?, provider = 'aws-s3'
Rewritten(row, url) == [row EXCEPT !.url = url, !.provider = "aws-s3"]

RewriteRow(tbl, fileId, url) == [tbl EXCEPT ![fileId] = Rewritten(@, url)]

\* the rows once the pending rewrites are made durable
Durable(tbl, pending) ==
  [i \in Ids |-> IF pending[i] # NoUrl THEN Rewritten(tbl[i], pending[i])
                 ELSE tbl[i]]

\* DBHelper.beginTransaction: BEGIN on the shared connection.
\* sqlite refuses a BEGIN inside a transaction (the statement throws);
\* postgres warns and changes nothing, but rejects every statement,
\* BEGIN included, while the transaction is in the aborted state.
beginTransaction(c, t) ==
  IF c = "sqlite"
  THEN IF t.open THEN [ok |-> FALSE, tx |-> t]
       ELSE [ok |-> TRUE, tx |-> [t EXCEPT !.open = TRUE]]
  ELSE IF t.open /\ t.aborted THEN [ok |-> FALSE, tx |-> t]
       ELSE [ok |-> TRUE, tx |-> [t EXCEPT !.open = TRUE]]

\* a COMMIT that always throws
commitAlwaysThrows(c, t, tbl) == [ok |-> FALSE, tx |-> t, table |-> tbl]

\* DBHelper.commit: COMMIT on the shared connection.
\* sqlite throws when no transaction is active; postgres warns and does
\* nothing then, and ends an aborted transaction by rolling it back.
commit(c, t, tbl) ==
  IF ~t.open
  THEN [ok |-> (c = "postgres"), tx |-> t, table |-> tbl]
  ELSE IF t.aborted
       THEN [ok |-> TRUE, tx |-> NoTx, table |-> tbl]
       ELSE [ok |-> TRUE, tx |-> NoTx, table |-> Durable(tbl, t.pending)]

\* DBHelper.rollback: ROLLBACK on the shared connection.
\* sqlite throws when no transaction is active; postgres warns.
rollback(c, t, tbl) ==
  IF ~t.open
  THEN [ok |-> (c = "postgres"), tx |-> t, table |-> tbl]
  ELSE [ok |-> TRUE, tx |-> NoTx, table |-> tbl]

\* DBHelper.updateFileToR2: UPDATE files SET url = ?, provider = 'aws-s3' ...
\* WHERE id = ?. `rejected` is the database refusing the statement.
\* Inside a transaction the rewrite is pending, outside it is durable at
\* once (autocommit). A rejected statement aborts a postgres transaction.
updateFileToR2(c, t, tbl, fileId, url, rejected) ==
  IF t.open /\ t.aborted
  THEN [ok |-> FALSE, tx |-> t, table |-> tbl]
  ELSE IF rejected
  THEN [ok |-> FALSE,
        tx |-> IF t.open /\ c = "postgres" THEN [t EXCEPT !.aborted = TRUE]
               ELSE t,
        table |-> tbl]
  ELSE IF t.open
  THEN [ok |-> TRUE, tx |-> [t EXCEPT !.pending[fileId] = url], table |-> tbl]
  ELSE [ok |-> TRUE, tx |-> t, table |-> RewriteRow(tbl, fileId, url)]

\* ------------------------------------------------------------- observation
\* hist records what a test harness around the scripts would record: how
\* often each collaborator was called for each record in the current
\* invocation, each record's recorded outcome, the records whose key the
\* destination probe reported present, and a summary of the two most recent
\* invocations. No action of the program reads it.
Zero == [i \in Ids |-> 0]
NoOutcome == [i \in Ids |-> "none"]
NoRun ==
  [ended |-> FALSE, finished |-> FALSE, exit |-> -1, dry |-> FALSE,
   sameEnv |-> FALSE, attempted |-> {}, outcome |-> NoOutcome,
   upload |-> Zero]

InitHist ==
  [runNo |-> 0, kills |-> 0, envChanges |-> 0, envDirty |-> FALSE,
   sameEnv |-> FALSE, dry |-> FALSE,
   begin |-> Zero, commit |-> Zero, rollback |-> Zero, download |-> Zero,
   upload |-> Zero, rewrite |-> Zero, attempts |-> Zero,
   waits |-> [i \in Ids |-> <<>>], downloaded |-> NoOutcome,
   outcome |-> NoOutcome, attempted |-> {}, present |-> {},
   sourceAtStart |-> {}, r2AtStart |-> {}, fileAtStart |-> NoFile,
   last |-> NoRun, prev |-> NoRun, preKill |-> NoFile]

Called(h, what, id) == [h EXCEPT ![what][id] = @ + 1]

\* downloadFromCloudinary was called for record id and ended as d: the
\* requests it sent, the delays it slept, whether it returned the buffer
Downloaded(h, id, d) ==
  [Called(h, "download", id) EXCEPT
     !.attempts[id] = d.attempts, !.waits[id] = d.waits,
     !.downloaded[id] = IF d.ok THEN "success" ELSE "failed"]

\* what is kept of an invocation once it has ended; of one that did not run
\* to its end (killed, or exit code 1) only that it ended
Summary(h, code) ==
  IF code = 0
  THEN [ended |-> TRUE, finished |-> TRUE, exit |-> 0, dry |-> h.dry,
        sameEnv |-> h.sameEnv, attempted |-> h.attempted,
        outcome |-> h.outcome, upload |-> h.upload]
  ELSE [NoRun EXCEPT !.ended = TRUE, !.exit = code, !.dry = h.dry]

EndRun(h, code) ==
  IF code = 0
  THEN [h EXCEPT !.prev = h.last, !.last = Summary(h, 0)]
  ELSE [h EXCEPT !.prev = h.last, !.last = Summary(h, code),
                 !.begin = Zero, !.commit = Zero, !.rollback = Zero,
                 !.download = Zero, !.upload = Zero, !.rewrite = Zero,
                 !.attempts = Zero, !.waits = [i \in Ids |-> <<>>],
                 !.downloaded = NoOutcome,
                 !.outcome = NoOutcome, !.attempted = {},
                 !.present = {}, !.sourceAtStart = {}, !.r2AtStart = {},
                 !.fileAtStart = NoFile]

\* ------------------------------------------------------------------- Init
NoState ==
  [migration_id |-> 0, end_time |-> "null", status |-> "in_progress",
   statistics |-> [total_files |-> 0, processed |-> 0, success |-> 0,
                   failed |-> 0, skipped |-> 0],
   processed_files |-> <<>>, failed_files |-> <<>>, skipped_files |-> <<>>]

\* ------------------------------------------------ backup and restore: data
\* Bounds of the backup/restore specification: readings of the clock, clock
\* readings per second (the file names carry milliseconds, listBackups
\* groups by the second), invocations of each script.
MaxClock == 2
TicksPerSecond == 2
MaxBackups == 1
MaxRestores == 1
MaxBackupsListed == 2

\* A file of BACKUP_DIR is named after its kind and the timestamp in it:
\*   "db"     data.db.backup-<ts>          "sql"    backup-<ts>.sql
\*   "json"   cloudinary-backup-<ts>.json  "csv"    migration-mapping-<ts>.csv
\*   "report" backup-report-<ts>.txt
NoPath == [kind |-> "none", ts |-> -1]
PathOf(kind, ts) == [kind |-> kind, ts |-> ts]

\* what a file holds: the rows of a database snapshot, the ids of an export,
\* the status line of a report; a file that was opened and never written
\* holds nothing
Holds(what, rows, ids) == [what |-> what, rows |-> rows, ids |-> ids]
EmptyFile == Holds("nothing", <<>>, {})

\* fs.existsSync(path)
Exists(dir, path) == \E f \in dir : f.name = path

\* fs.writeFileSync / fs.copyFileSync / shell redirection to path: the file
\* is created, or its content replaced
WriteFile(dir, path, content) ==
  {f \in dir : f.name # path} \cup {[name |-> path, content |-> content]}

ReadFile(dir, path) == (CHOOSE f \in dir : f.name = path).content

\* BackupHelper.getTimestamp: the clock reading, read again by every caller
getTimestamp == clock

\* the backup script is not running / has not run
NoBackupRun ==
  [pc |-> "idle", exit |-> -1, runs |-> 0, total |-> 0,
   databaseBackup |-> NoPath, jsonBackup |-> NoPath, csvBackup |-> NoPath,
   report |-> NoPath, failed |-> "none"]

\* the restore script is not running / has not run
NoRestoreRun ==
  [pc |-> "idle", exit |-> -1, runs |-> 0, dbBackup |-> NoPath,
   confirmed |-> FALSE]

\* no script is running
AllIdle == mainPc = "idle" /\ backup.pc = "idle" /\ restore.pc = "idle"

\* n rows, all on Cloudinary, nothing in the bucket, no state file, a healthy
\* outside world and a custom public domain; either backend; keys colliding
\* or not
InitWith(n, lim) ==
  /\ limits = lim
  /\ config = [publicUrl |-> TRUE, endpoint |-> "r2"]
  /\ \E shared \in BOOLEAN : table = [i \in 1..n |-> SourceRow(i, shared)]
  /\ client \in Clients
  /\ src = [i \in Ids |-> "ok"]
  /\ dst = "ok"
  /\ dbFail = {}
  /\ tx = NoTx
  /\ r2 = {}
  /\ stateFile = NoFile
  /\ state = NoState
  /\ mainPc = "idle"
  /\ exitCode = -1
  /\ dryRun = FALSE
  /\ files = <<>>
  /\ pc = [i \in Ids |-> "none"]
  /\ result = [i \in Ids |-> NoResult]
  /\ r2Url = [i \in Ids |-> NoUrl]
  /\ processed = 0
  /\ hist = InitHist
  /\ ready = {}
  /\ clock = 0
  /\ backupDir = {}
  /\ preRestore = [exists |-> FALSE, rows |-> <<>>]
  /\ backup = NoBackupRun
  /\ restore = NoRestoreRun

Init ==
  InitWith(NumFiles,
           [runs |-> MaxRuns, kills |-> MaxKills, envChanges |-> MaxEnvChanges,
            transient |-> 0, backups |-> 0])

\* --------------------------------------------------------- the environment
\* Between two invocations the outside world may change: an asset disappears
\* from Cloudinary or Cloudinary stops answering, R2 starts rejecting PUTs or
\* stops answering, the database starts or stops rejecting the UPDATE of one
\* row, the operator edits R2_PUBLIC_URL / AWS_ENDPOINT.
SetEnv ==
  /\ mainPc = "idle"
  /\ hist.envChanges < limits.envChanges
  /\ hist.runNo < limits.runs
  /\ \/ \E i \in Ids, v \in {"ok", "missing", "down"} :
          /\ v # src[i]
          /\ src' = [src EXCEPT ![i] = v]
          /\ UNCHANGED <<dst, dbFail, config>>
     \/ \E v \in {"ok", "putFails", "down"} :
          /\ v # dst
          /\ dst' = v
          /\ UNCHANGED <<src, dbFail, config>>
     \/ \E i \in Ids :
          /\ dbFail' = IF i \in dbFail THEN dbFail \ {i} ELSE dbFail \cup {i}
          /\ UNCHANGED <<src, dst, config>>
     \/ \E c \in Configs :
          /\ c # config
          /\ config' = c
          /\ UNCHANGED <<src, dst, dbFail>>
  /\ hist' = [hist EXCEPT !.envChanges = @ + 1, !.envDirty = TRUE]
  /\ UNCHANGED <<opsVars, ready, limits, client, table, tx, r2, stateFile, state, mainPc, exitCode,
                 dryRun, files, pc, result, r2Url, processed>>

\* the process is gone: its memory and its connection with it. An open
\* transaction of a closed connection is rolled back by the database.
ProcessEnds(code) ==
  /\ mainPc' = "idle"
  /\ exitCode' = code
  /\ tx' = NoTx
  /\ state' = NoState
  /\ dryRun' = FALSE
  /\ files' = <<>>
  /\ pc' = [i \in Ids |-> "none"]
  /\ result' = [i \in Ids |-> NoResult]
  /\ r2Url' = [i \in Ids |-> NoUrl]
  /\ processed' = 0
  /\ ready' = {}

\* --------------------------------------------------------------------- main
FileIds(fs) == {fs[k].id : k \in 1..Len(fs)}
FileOf(id) == CHOOSE f \in {files[k] : k \in 1..Len(files)} : f.id = id

\* main up to `const promises = files.map(...)`: load the state, query the
\* Cloudinary rows, filter the processed ids; return at once when nothing is
\* outstanding, else hand every outstanding row to limit().
Start(d) ==
  /\ mainPc = "idle"
  /\ hist.runNo < limits.runs
  /\ stateFile.exists => Parses(stateFile)
  /\ LET st0 == loadState
         allFiles == getCloudinaryFiles
         fs == Outstanding(allFiles, st0)
         h1 == [hist EXCEPT !.runNo = @ + 1, !.dry = d,
                            !.sameEnv = ~hist.envDirty, !.envDirty = FALSE,
                            !.begin = Zero, !.commit = Zero, !.rollback = Zero,
                            !.download = Zero, !.upload = Zero,
                            !.rewrite = Zero, !.outcome = NoOutcome,
                            !.attempts = Zero,
                            !.waits = [i \in Ids |-> <<>>],
                            !.downloaded = NoOutcome,
                            !.attempted = FileIds(fs), !.present = {},
                            !.sourceAtStart = FileIds(allFiles),
                            !.r2AtStart = r2, !.fileAtStart = stateFile]
     IN  IF Len(fs) = 0
         THEN /\ exitCode' = 0
              /\ hist' = EndRun(h1, 0)
              /\ UNCHANGED <<state, mainPc, dryRun, files, pc, result, r2Url,
                             processed>>
         ELSE /\ mainPc' = "running"
              /\ dryRun' = d
              /\ files' = fs
              /\ state' = [st0 EXCEPT !.statistics.total_files = Len(allFiles)]
              /\ pc' = [i \in Ids |-> IF i \in FileIds(fs) THEN "queued"
                                      ELSE "none"]
              /\ result' = [i \in Ids |-> NoResult]
              /\ r2Url' = [i \in Ids |-> NoUrl]
              /\ processed' = 0
              /\ hist' = h1
              /\ UNCHANGED exitCode
  /\ ready' = {}
  /\ UNCHANGED <<opsVars, config, limits, client, src, dst, dbFail, table, tx, r2, stateFile>>

\* main with a state file that JSON.parse rejects: loadState throws, main's
\* catch logs and calls process.exit(1); nothing else has happened.
StartFails(d) ==
  /\ mainPc = "idle"
  /\ hist.runNo < limits.runs
  /\ stateFile.exists /\ ~Parses(stateFile)
  /\ exitCode' = 1
  /\ hist' = EndRun([hist EXCEPT !.runNo = @ + 1, !.dry = d,
                                 !.envDirty = FALSE], 1)
  /\ UNCHANGED <<opsVars, ready, config, limits, client, src, dst, dbFail, table, tx, r2, stateFile, state,
                 mainPc, dryRun, files, pc, result, r2Url, processed>>

\* a task is active from the moment limit() runs it until its promise settles
Active(id) == pc[id] \notin {"none", "queued", "done"}

\* where the worker continues once migrateFile has returned
AfterMigrate(dry) == IF UsesTransaction(dry) THEN "commit" ELSE "record"

\* a limiter that never makes a task wait
SlotAlwaysFree == TRUE

\* p-limit: a task is run when activeCount < concurrency
SlotFree == Cardinality({j \in Ids : Active(j)}) < CONCURRENCY

\* limit() starts a queued task as soon as fewer than CONCURRENCY are
\* active: at files.map for the first ones, later when a task settles
StartPending ==
  /\ \E j \in Ids : pc[j] = "queued"
  /\ SlotFree

\* DBHelper with better-sqlite3 runs each statement inside the call, so the
\* await of the call is settled at once; with pg the answer comes later
SyncClient == client = "sqlite"

\* task id may take its next step: no task start is pending, and either this
\* task's await is already settled or no task's is (a network answer is
\* handled only when nothing is left to run)
Runnable(id) == ~StartPending /\ (id \in ready \/ ready = {})

\* ready once task id has made a database call
AfterDbCall(id) == IF SyncClient THEN ready \cup {id} ELSE ready \ {id}

\* limit() runs the next queued task when fewer than CONCURRENCY are active;
\* the task's first statement is `if (!dryRun) await db.beginTransaction()`.
RunTask(id) ==
  /\ mainPc = "running"
  /\ pc[id] = "queued"
  /\ \A j \in Ids : j < id => pc[j] # "queued"
  /\ SlotFree
  /\ IF UsesTransaction(dryRun)
     THEN LET b == beginTransaction(client, tx)
          IN  /\ tx' = b.tx
              /\ pc' = [pc EXCEPT ![id] = IF b.ok THEN "probe" ELSE "catch"]
              /\ ready' = IF b.ok THEN ready ELSE AfterDbCall(id)
              /\ hist' = Called(hist, "begin", id)
     ELSE /\ pc' = [pc EXCEPT ![id] = "probe"]
          /\ UNCHANGED <<tx, hist, ready>>
  /\ UNCHANGED <<opsVars, config, limits, client, src, dst, dbFail, table, r2, stateFile, state, mainPc,
                 exitCode, dryRun, files, result, r2Url, processed>>

\* migrateFile, lines 90-109: axios.head(file.url), then, unless it answered
\* 404, uploader.fileExists(key) and the choice of the branch (lines
\* 111-127). Only a 404 returns 'skipped'; every other error of the source
\* probe is swallowed by the inner catch. A destination probe error other
\* than not-found is thrown and becomes migrateFile's 'failed'. The source
\* probe touches nothing the other workers see, so the two requests are one
\* step, taken when the destination answers.
Probe(id) ==
  /\ mainPc = "running"
  /\ pc[id] = "probe"
  /\ Runnable(id)
  /\ LET key == Key(FileOf(id))
         head == headStatus(src[id])
         probe == fileExists(dst, r2, key)
         exists == probe.exists
     IN  IF head = 404
         THEN /\ result' = [result EXCEPT ![id] =
                              [status |-> "skipped",
                               detail |-> "File not found on Cloudinary (404)"]]
              /\ pc' = [pc EXCEPT ![id] = AfterMigrate(dryRun)]
              /\ UNCHANGED r2Url
         ELSE IF ~probe.ok
         THEN /\ result' = [result EXCEPT ![id] =
                              [status |-> "failed", detail |-> "probe"]]
              /\ pc' = [pc EXCEPT ![id] = AfterMigrate(dryRun)]
              /\ UNCHANGED r2Url
         ELSE IF NeedsTransfer(dryRun, exists)
         THEN /\ pc' = [pc EXCEPT ![id] = "transfer"]
              /\ UNCHANGED <<result, r2Url>>
         ELSE IF PublicUrlThrows
         THEN /\ result' = [result EXCEPT ![id] =
                              [status |-> "failed", detail |-> "endpoint"]]
              /\ pc' = [pc EXCEPT ![id] = AfterMigrate(dryRun)]
              /\ UNCHANGED r2Url
         ELSE /\ r2Url' = [r2Url EXCEPT ![id] =
                             IF exists THEN getPublicUrl(key)
                             ELSE DryRunUrl(key)]
              /\ IF WritesDatabase(dryRun)
                 THEN /\ pc' = [pc EXCEPT ![id] = "update"]
                      /\ UNCHANGED result
                 ELSE /\ result' = [result EXCEPT ![id] =
                                      [status |-> "success", detail |-> ""]]
                      /\ pc' = [pc EXCEPT ![id] = AfterMigrate(dryRun)]
  /\ hist' = IF headStatus(src[id]) # 404
                  /\ fileExists(dst, r2, Key(FileOf(id))).exists
               THEN [hist EXCEPT !.present = @ \cup {id}]
               ELSE hist
  /\ ready' = IF pc'[id] = "transfer" THEN ready \ {id} ELSE ready \cup {id}
  /\ UNCHANGED <<opsVars, config, limits, client, src, dst, dbFail, table, tx, r2, stateFile, state,
                 mainPc, exitCode, dryRun, files, processed>>

\* migrateFile, lines 113-121: downloadFromCloudinary(file.url), which
\* returns the buffer or throws after its retries, then uploader.upload,
\* which stores the object and returns the public url, or throws. The
\* download touches nothing the other workers see, so the two calls are one
\* step, taken when the upload is answered.
Transfer(id) ==
  /\ mainPc = "running"
  /\ pc[id] = "transfer"
  /\ Runnable(id)
  /\ \E failing \in 0..limits.transient :
       LET d == downloadFromCloudinary(src[id], failing)
           u == upload(dst, r2, Key(FileOf(id)))
           h1 == Downloaded(hist, id, d)
       IN  IF ~d.ok
           THEN /\ result' = [result EXCEPT ![id] =
                                [status |-> "failed", detail |-> "download"]]
                /\ pc' = [pc EXCEPT ![id] = AfterMigrate(dryRun)]
                /\ hist' = h1
                /\ UNCHANGED <<r2, r2Url>>
           ELSE IF u.ok
           THEN /\ r2' = u.store
                /\ r2Url' = [r2Url EXCEPT ![id] = u.url]
                /\ pc' = [pc EXCEPT ![id] = "update"]
                /\ hist' = Called(h1, "upload", id)
                /\ UNCHANGED result
           ELSE /\ r2' = u.store
                /\ result' = [result EXCEPT ![id] =
                                [status |-> "failed", detail |-> "upload"]]
                /\ pc' = [pc EXCEPT ![id] = AfterMigrate(dryRun)]
                /\ hist' = Called(h1, "upload", id)
                /\ UNCHANGED r2Url
  /\ ready' = ready \cup {id}
  /\ UNCHANGED <<opsVars, config, limits, client, src, dst, dbFail, table, tx, stateFile, state,
                 mainPc, exitCode, dryRun, files, processed>>

\* migrateFile, lines 129-142: db.updateFileToR2(file.id, r2Url), then the
\* 'success' result; a rejected statement becomes 'failed'.
Update(id) ==
  /\ mainPc = "running"
  /\ pc[id] = "update"
  /\ Runnable(id)
  /\ LET u == updateFileToR2(client, tx, table, id, r2Url[id], id \in dbFail)
     IN  /\ tx' = u.tx
         /\ table' = u.table
         /\ result' = [result EXCEPT ![id] =
                         IF u.ok THEN [status |-> "success", detail |-> ""]
                         ELSE [status |-> "failed", detail |-> "database"]]
  /\ pc' = [pc EXCEPT ![id] = AfterMigrate(dryRun)]
  /\ hist' = Called(hist, "rewrite", id)
  /\ ready' = AfterDbCall(id)
  /\ UNCHANGED <<opsVars, config, limits, client, src, dst, dbFail, r2, stateFile, state, mainPc,
                 exitCode, dryRun, files, r2Url, processed>>

\* the worker, lines 213-215: `await db.commit()` whatever migrateFile
\* returned; a throwing COMMIT enters the catch block.
Commit(id) ==
  /\ mainPc = "running"
  /\ pc[id] = "commit"
  /\ Runnable(id)
  /\ LET c == commit(client, tx, table)
     IN  /\ tx' = c.tx
         /\ table' = c.table
         /\ pc' = [pc EXCEPT ![id] = IF c.ok THEN "record" ELSE "catch"]
  /\ hist' = Called(hist, "commit", id)
  /\ ready' = AfterDbCall(id)
  /\ UNCHANGED <<opsVars, config, limits, client, src, dst, dbFail, r2, stateFile, state, mainPc,
                 exitCode, dryRun, files, result, r2Url, processed>>

\* the worker, lines 217-249: push the outcome, count it, saveState(state).
\* The block has no await, so it runs as one step.
Record(id) ==
  /\ mainPc = "running"
  /\ pc[id] = "record"
  /\ Runnable(id)
  /\ LET st == CountProcessed(
                 UpdateState(state, FileOf(id), result[id], r2Url[id]),
                 processed + 1)
     IN  /\ state' = st
         /\ stateFile' = saveState(st)
  /\ processed' = processed + 1
  /\ pc' = [pc EXCEPT ![id] = "done"]
  /\ hist' = [hist EXCEPT !.outcome[id] = result[id].status]
  /\ ready' = ready \ {id}
  /\ UNCHANGED <<opsVars, config, limits, client, src, dst, dbFail, table, tx, r2, mainPc, exitCode,
                 dryRun, files, result, r2Url>>

\* the worker's catch block, lines 251-253: `await db.rollback()`. When the
\* ROLLBACK throws too, the task's promise rejects, Promise.all rejects and
\* main's catch ends the process with exit code 1.
Rollback(id) ==
  /\ mainPc = "running"
  /\ pc[id] = "catch"
  /\ Runnable(id)
  /\ LET r == IF UsesTransaction(dryRun) THEN rollback(client, tx, table)
              ELSE [ok |-> TRUE, tx |-> tx, table |-> table]
         h1 == IF UsesTransaction(dryRun) THEN Called(hist, "rollback", id)
               ELSE hist
     IN  IF r.ok
         THEN /\ tx' = r.tx
              /\ pc' = [pc EXCEPT ![id] = "caught"]
              /\ hist' = h1
              /\ ready' = AfterDbCall(id)
              /\ UNCHANGED <<state, mainPc, exitCode, dryRun, files, result,
                             r2Url, processed>>
         ELSE /\ ProcessEnds(1)
              /\ hist' = EndRun(h1, 1)
  /\ UNCHANGED <<opsVars, config, limits, client, src, dst, dbFail, table, r2, stateFile>>

\* the worker's catch block, lines 255-268: a failed entry, the count,
\* saveState(state).
RecordCaught(id) ==
  /\ mainPc = "running"
  /\ pc[id] = "caught"
  /\ Runnable(id)
  /\ LET st == CountProcessed(UpdateStateCaught(state, FileOf(id)),
                              processed + 1)
     IN  /\ state' = st
         /\ stateFile' = saveState(st)
  /\ processed' = processed + 1
  /\ pc' = [pc EXCEPT ![id] = "done"]
  /\ hist' = [hist EXCEPT !.outcome[id] = "failed"]
  /\ ready' = ready \ {id}
  /\ UNCHANGED <<opsVars, config, limits, client, src, dst, dbFail, table, tx, r2, mainPc, exitCode,
                 dryRun, files, result, r2Url>>

\* main, lines 273-281: Promise.all has resolved; final status, saveState,
\* db.close(), exit code 0.
Finish ==
  /\ mainPc = "running"
  /\ \A i \in Ids : pc[i] \in {"none", "done"}
  /\ stateFile' = saveState(FinalState(state))
  /\ ProcessEnds(0)
  /\ hist' = EndRun(hist, 0)
  /\ UNCHANGED <<opsVars, config, limits, client, src, dst, dbFail, table, r2>>

\* the process is terminated from outside (Ctrl+C, kill) at any await
Kill ==
  /\ mainPc = "running"
  /\ hist.kills < limits.kills
  /\ ProcessEnds(130)
  /\ hist' = [EndRun(hist, 130) EXCEPT !.kills = @ + 1,
                                         !.preKill = stateFile]
  /\ UNCHANGED <<opsVars, config, limits, client, src, dst, dbFail, table, r2, stateFile>>

\* the process is terminated while a saveState is writing: the file has
\* been truncated and the new text is not in it yet
KillDuringFlush ==
  /\ mainPc = "running"
  /\ hist.kills < limits.kills
  /\ \/ \E i \in Ids : pc[i] \in {"record", "caught"}
     \/ \A i \in Ids : pc[i] \in {"none", "done"}
  /\ stateFile' = Truncated
  /\ ProcessEnds(130)
  /\ hist' = [EndRun(hist, 130) EXCEPT !.kills = @ + 1,
                                         !.preKill = stateFile]
  /\ UNCHANGED <<opsVars, config, limits, client, src, dst, dbFail, table, r2>>

Next ==
  \/ SetEnv
  \/ \E d \in BOOLEAN : Start(d)
  \/ \E d \in BOOLEAN : StartFails(d)
  \/ \E id \in Ids : RunTask(id)
  \/ \E id \in Ids : Probe(id)
  \/ \E id \in Ids : Transfer(id)
  \/ \E id \in Ids : Update(id)
  \/ \E id \in Ids : Commit(id)
  \/ \E id \in Ids : Record(id)
  \/ \E id \in Ids : Rollback(id)
  \/ \E id \in Ids : RecordCaught(id)
  \/ Finish
  \/ Kill
  \/ KillDuringFlush

Spec == Init /\ [][Next]_vars

\* ------------------------------------------- one run with failing requests
\* The specification of the download: one invocation against sources whose
\* first requests may fail (up to MaxFailingAttempts of them), after at most
\* one change of the outside world.
MaxFailingAttempts == 3

DownloadLimits ==
  [runs |-> 1, kills |-> 0, envChanges |-> 1,
   transient |-> MaxFailingAttempts, backups |-> 0]

DownloadInit == InitWith(NumFiles, DownloadLimits)

DownloadNext ==
  \/ SetEnv
  \/ \E d \in BOOLEAN : Start(d)
  \/ \E id \in Ids : RunTask(id)
  \/ \E id \in Ids : Probe(id)
  \/ \E id \in Ids : Transfer(id)
  \/ \E id \in Ids : Update(id)
  \/ \E id \in Ids : Commit(id)
  \/ \E id \in Ids : Record(id)
  \/ \E id \in Ids : Rollback(id)
  \/ \E id \in Ids : RecordCaught(id)
  \/ Finish

DownloadSpec == DownloadInit /\ [][DownloadNext]_vars

\* ------------------------------------------- one run with a full pool
\* The specification of the pool: one invocation, dry or real, with more
\* outstanding rows than the pool has slots, in an outside world that does
\* not change.
PoolFiles == 5

PoolLimits ==
  [runs |-> 1, kills |-> 0, envChanges |-> 0, transient |-> 0, backups |-> 0]

PoolInit == InitWith(PoolFiles, PoolLimits)

PoolNext ==
  \/ \E d \in BOOLEAN : Start(d)
  \/ \E id \in Ids : RunTask(id)
  \/ \E id \in Ids : Probe(id)
  \/ \E id \in Ids : Transfer(id)
  \/ \E id \in Ids : Update(id)
  \/ \E id \in Ids : Commit(id)
  \/ \E id \in Ids : Record(id)
  \/ \E id \in Ids : Rollback(id)
  \/ \E id \in Ids : RecordCaught(id)
  \/ Finish

PoolSpec == PoolInit /\ [][PoolNext]_vars

\* ====================================================== backup and restore
\* The backup script (backup-before-migration) and the restore script
\* (restore-from-backup) run as processes of their own, against the same
\* database and the same BACKUP_DIR. Each action is one stretch of a script
\* between two awaits; fs.*Sync and execSync calls are inside the stretch.

\* the wall clock advances (its reading matters to the backup script only)
Tick ==
  /\ mainPc = "idle" /\ restore.pc = "idle"
  /\ clock < MaxClock
  /\ clock' = clock + 1
  /\ UNCHANGED <<migVars, backupDir, preRestore, backup, restore>>

\* the backup script ends: main returns (code 0), or its catch block calls
\* process.exit(1) for the step that threw
BackupEnds(b, code, step) ==
  [b EXCEPT !.pc = "idle", !.exit = code, !.failed = step]

\* backup main up to Step 1: DBHelper.init, getCloudinaryFiles; with no
\* Cloudinary row the script returns at once and writes nothing.
BackupStart ==
  /\ AllIdle
  /\ backup.runs < limits.backups
  /\ LET b0 == [NoBackupRun EXCEPT !.runs = backup.runs + 1,
                                    !.total = Len(getCloudinaryFiles)]
     IN  \E ok \in BOOLEAN :
           backup' = IF ~ok THEN BackupEnds(b0, 1, "connect")
                     ELSE IF b0.total = 0 THEN BackupEnds(b0, 0, "none")
                     ELSE [b0 EXCEPT !.pc = "database"]
  /\ UNCHANGED <<migVars, clock, backupDir, preRestore, restore>>

\* BackupHelper.backupSQLite: fs.copyFileSync(dbPath, data.db.backup-<ts>)
backupSQLite(dir, ok) ==
  LET path == PathOf("db", getTimestamp)
  IN  IF ok THEN [ok |-> TRUE, path |-> path,
                  dir |-> WriteFile(dir, path, Holds("snapshot", table, {}))]
      ELSE [ok |-> FALSE, path |-> NoPath, dir |-> dir]

\* BackupHelper.backupPostgreSQL: execSync(`pg_dump "..." > "backup-<ts>.sql"`)
\* The shell opens the target of the redirection before pg_dump runs, so a
\* pg_dump that fails leaves the file behind, empty; execSync then throws.
backupPostgreSQL(dir, ok) ==
  LET path == PathOf("sql", getTimestamp)
  IN  IF ok THEN [ok |-> TRUE, path |-> path,
                  dir |-> WriteFile(dir, path, Holds("snapshot", table, {}))]
      ELSE [ok |-> FALSE, path |-> NoPath,
            dir |-> WriteFile(dir, path, EmptyFile)]

\* Step 1: the database snapshot
BackupDatabase ==
  /\ backup.pc = "database"
  /\ \E ok \in BOOLEAN :
       LET r == IF client = "sqlite" THEN backupSQLite(backupDir, ok)
                ELSE backupPostgreSQL(backupDir, ok)
       IN  /\ backupDir' = r.dir
           /\ backup' = IF r.ok
                        THEN [backup EXCEPT !.pc = "json",
                                            !.databaseBackup = r.path]
                        ELSE BackupEnds(backup, 1, "database")
  /\ UNCHANGED <<migVars, clock, preRestore, restore>>

\* the ids of the rows an export lists
ExportedIds == {getCloudinaryFiles[k].id : k \in 1..Len(getCloudinaryFiles)}

\* BackupHelper.exportToJSON: the query, then
\* fs.writeFileSync(cloudinary-backup-<ts>.json, ...)
exportToJSON(dir, ok) ==
  LET path == PathOf("json", getTimestamp)
  IN  IF ok THEN [ok |-> TRUE, path |-> path,
                  dir |-> WriteFile(dir, path, Holds("json", <<>>, ExportedIds))]
      ELSE [ok |-> FALSE, path |-> NoPath, dir |-> dir]

\* BackupHelper.exportToCSV: the query, then
\* fs.writeFileSync(migration-mapping-<ts>.csv, ...)
exportToCSV(dir, ok) ==
  LET path == PathOf("csv", getTimestamp)
  IN  IF ok THEN [ok |-> TRUE, path |-> path,
                  dir |-> WriteFile(dir, path, Holds("csv", <<>>, ExportedIds))]
      ELSE [ok |-> FALSE, path |-> NoPath, dir |-> dir]

\* Step 2: the JSON export
BackupJSON ==
  /\ backup.pc = "json"
  /\ \E ok \in BOOLEAN :
       LET r == exportToJSON(backupDir, ok)
       IN  /\ backupDir' = r.dir
           /\ backup' = IF r.ok
                        THEN [backup EXCEPT !.pc = "csv", !.jsonBackup = r.path]
                        ELSE BackupEnds(backup, 1, "json")
  /\ UNCHANGED <<migVars, clock, preRestore, restore>>

\* Step 3: the CSV mapping table
BackupCSV ==
  /\ backup.pc = "csv"
  /\ \E ok \in BOOLEAN :
       LET r == exportToCSV(backupDir, ok)
       IN  /\ backupDir' = r.dir
           /\ backup' = IF r.ok
                        THEN [backup EXCEPT !.pc = "verify", !.csvBackup = r.path]
                        ELSE BackupEnds(backup, 1, "csv")
  /\ UNCHANGED <<migVars, clock, preRestore, restore>>

\* a Step 4 that does not look at the files
allVerifiedWithoutLooking(dir, paths) == TRUE

\* Step 4: fs.existsSync of the three paths
allVerified(dir, paths) == \A p \in paths : Exists(dir, p)

\* BackupHelper.generateReport: fs.writeFileSync(backup-report-<ts>.txt, ...)
generateReport(dir, status, ok) ==
  LET path == PathOf("report", getTimestamp)
  IN  IF ok THEN [ok |-> TRUE, path |-> path,
                  dir |-> WriteFile(dir, path, Holds(status, <<>>, {}))]
      ELSE [ok |-> FALSE, path |-> NoPath, dir |-> dir]

\* Steps 4 and 5: 'Backup verification failed' is thrown when one of the
\* three files is not there, else the report is written
BackupVerifyAndReport ==
  /\ backup.pc = "verify"
  /\ IF ~allVerified(backupDir, {backup.databaseBackup, backup.jsonBackup,
                                 backup.csvBackup})
     THEN /\ backup' = BackupEnds(backup, 1, "verify")
          /\ UNCHANGED backupDir
     ELSE \E ok \in BOOLEAN :
            LET r == generateReport(backupDir, "COMPLETED", ok)
            IN  /\ backupDir' = r.dir
                /\ backup' = IF r.ok
                             THEN [backup EXCEPT !.pc = "close",
                                                 !.report = r.path]
                             ELSE BackupEnds(backup, 1, "report")
  /\ UNCHANGED <<migVars, clock, preRestore, restore>>

\* await db.close() and the summary: main returns, or close rejects
BackupClose ==
  /\ backup.pc = "close"
  /\ \E ok \in BOOLEAN :
       backup' = IF ok THEN BackupEnds(backup, 0, "none")
                 ELSE BackupEnds(backup, 1, "close")
  /\ UNCHANGED <<migVars, clock, backupDir, preRestore, restore>>

\* Somebody else removes a file the running script relies on: an artefact of
\* the running backup, or the file a restore is about to read.
RemoveArtefact ==
  /\ \E f \in backupDir :
       /\ \/ /\ backup.pc # "idle"
             /\ f.name \in {backup.databaseBackup, backup.jsonBackup,
                            backup.csvBackup}
          \/ /\ restore.pc = "prompt"
             /\ f.name = restore.dbBackup
       /\ backupDir' = backupDir \ {f}
  /\ UNCHANGED <<migVars, clock, preRestore, backup, restore>>

\* ----------------------------------------------------------------- restore
\* file.match(/backup-(\d{4}-\d{2}-\d{2}-\d{2}-\d{2}-\d{2})/): the digits
\* must follow "backup-" directly, which they do in the names of the two
\* snapshot kinds and of the JSON export, and do not in
\* migration-mapping-<ts>.csv and backup-report-<ts>.txt
Matches(path) == path.kind \in {"db", "sql", "json"}

\* match[1]: the timestamp down to the second
TokenOf(path) == path.ts \div TicksPerSecond

\* fs.readdirSync(backupDir) lists the names in an order of the file
\* system's choosing; these are the orders of the names that match
Listings(dir) ==
  LET names == {f.name : f \in dir}
      M == {p \in names : Matches(p)}
  IN  {o \in [1..Cardinality(M) -> M] :
         \A i, j \in 1..Cardinality(M) : i # j => o[i] # o[j]}

FirstIndex(order, t) ==
  CHOOSE i \in 1..Len(order) :
    /\ TokenOf(order[i]) = t
    /\ \A j \in 1..(i - 1) : TokenOf(order[j]) # t

NamesWith(order, t) == SelectSeq(order, LAMBDA p : TokenOf(p) = t)

\* the Map of listBackups: one BackupSet per token, in the order in which
\* the tokens are first met, each with its files in listing order
GroupByToken(order) ==
  LET toks == {TokenOf(order[i]) : i \in 1..Len(order)}
      Before(t) == {u \in toks : FirstIndex(order, u) < FirstIndex(order, t)}
  IN  [k \in 1..Cardinality(toks) |->
         LET t == CHOOSE u \in toks : Cardinality(Before(u)) = k - 1
         IN  [timestamp |-> t, files |-> NamesWith(order, t)]]

\* .sort((a, b) => new Date(b.timestamp) - new Date(a.timestamp)): a token
\* yyyy-mm-dd-hh-mm-ss is no date string, new Date gives an Invalid Date
\* for it and the comparator NaN for every pair, which the sort takes as
\* "equal": the sequence stays as it is
sortByDate(sets) == sets

\* BackupHelper.listBackups
listBackups(order) == sortByDate(GroupByToken(order))

\* selectedBackup.files.find(f => f.startsWith('data.db.backup-') ||
\*                                f.endsWith('.sql'))
FindDbBackup(set) ==
  LET dbs == SelectSeq(set.files, LAMBDA p : p.kind \in {"db", "sql"})
  IN  IF dbs = <<>> THEN NoPath ELSE dbs[1]

\* the tokens --backup=<token> may name; NoToken: no --backup argument
NoToken == -1
Tokens == 0..(MaxClock \div TicksPerSecond)

RestoreEnds(r, code) == [r EXCEPT !.pc = "idle", !.exit = code]

\* restore main up to the prompt: list the backups, select one, find its
\* database file; process.exit(1) when there is none
RestoreStart(requestedBackup) ==
  /\ AllIdle
  /\ restore.runs < MaxRestores
  /\ \E order \in Listings(backupDir) :
       LET backups == listBackups(order)
           r0 == [NoRestoreRun EXCEPT !.runs = restore.runs + 1]
           found == {k \in 1..Len(backups) :
                       backups[k].timestamp = requestedBackup}
           selected == IF requestedBackup # NoToken
                       THEN backups[CHOOSE k \in found :
                                      \A m \in found : k <= m]
                       ELSE backups[1]
       IN  restore' =
             IF Len(backups) = 0 THEN RestoreEnds(r0, 1)
             ELSE IF requestedBackup # NoToken /\ found = {}
               THEN RestoreEnds(r0, 1)
             ELSE IF FindDbBackup(selected) = NoPath THEN RestoreEnds(r0, 1)
             ELSE [r0 EXCEPT !.pc = "prompt",
                             !.dbBackup = FindDbBackup(selected)]
  /\ UNCHANGED <<migVars, clock, backupDir, preRestore, backup>>

\* what the user may type at the prompt
Answers == {"y", "yes", "Y", "Yes", "YES", "n", "no", "", "y "}

\* String.prototype.toLowerCase on these answers
toLowerCase(answer) ==
  CASE answer = "Y" -> "y"
    [] answer \in {"Yes", "YES"} -> "yes"
    [] OTHER -> answer

\* a prompt whose default answer is yes
promptDefaultYes(answer) == toLowerCase(answer) \in {"y", "yes", ""}

\* prompt: resolve(answer.toLowerCase() === 'y' ||
\*                 answer.toLowerCase() === 'yes')
prompt(answer) == toLowerCase(answer) = "y" \/ toLowerCase(answer) = "yes"

\* BackupHelper.restoreSQLite: throws when the backup file is not there;
\* copies the live database to <dbPath>.pre-restore; copies the backup over
\* the live database. `fails` is the copy that throws: 0 none, 1 the copy of
\* the live database, 2 the copy of the backup.
restoreSQLite(dir, path, fails) ==
  IF ~Exists(dir, path) \/ fails = 1
  THEN [ok |-> FALSE, table |-> table, preRestore |-> preRestore]
  ELSE IF fails = 2
  THEN [ok |-> FALSE, table |-> table,
        preRestore |-> [exists |-> TRUE, rows |-> table]]
  ELSE [ok |-> TRUE, table |-> ReadFile(dir, path).rows,
        preRestore |-> [exists |-> TRUE, rows |-> table]]

\* What psql does with a plain pg_dump script on the live database: the
\* tables are there already, CREATE TABLE fails and psql goes on; COPY files
\* is one statement and fails as a whole on the first row whose primary key
\* is already in the table. So the rows are loaded only when no dumped id is
\* in the live table, and psql still ends with status 0.
psqlReplay(rows, live) ==
  IF \E i \in DOMAIN rows : i \in DOMAIN live THEN live
  ELSE [i \in DOMAIN rows \cup DOMAIN live |->
          IF i \in DOMAIN live THEN live[i] ELSE rows[i]]

\* BackupHelper.restorePostgreSQL: throws when the backup file is not there
\* or psql ends with a non-zero status (fails # 0); makes no copy of the
\* live database.
restorePostgreSQL(dir, path, fails) ==
  IF ~Exists(dir, path) \/ fails # 0
  THEN [ok |-> FALSE, table |-> table, preRestore |-> preRestore]
  ELSE [ok |-> TRUE, table |-> psqlReplay(ReadFile(dir, path).rows, table),
        preRestore |-> preRestore]

\* The user answers the prompt. Without confirmation process.exit(0); with
\* it the restore of the backend runs at once, a throw goes to main's catch
\* and process.exit(1).
RestoreAnswer(answer) ==
  /\ restore.pc = "prompt"
  /\ LET confirmed == prompt(answer)
         r1 == [restore EXCEPT !.confirmed = confirmed]
     IN  IF ~confirmed
         THEN /\ restore' = RestoreEnds(r1, 0)
              /\ UNCHANGED <<table, preRestore>>
         ELSE \E fails \in 0..2 :
                LET r == IF client = "sqlite"
                         THEN restoreSQLite(backupDir, restore.dbBackup, fails)
                         ELSE restorePostgreSQL(backupDir, restore.dbBackup,
                                                fails)
                IN  /\ table' = r.table
                    /\ preRestore' = r.preRestore
                    /\ restore' = IF r.ok THEN [r1 EXCEPT !.pc = "verify"]
                                  ELSE RestoreEnds(r1, 1)
  /\ UNCHANGED <<ready, config, limits, client, src, dst, dbFail, tx, r2,
                 stateFile, state, mainPc, exitCode, dryRun, files, pc, result,
                 r2Url, processed, hist, clock, backupDir, backup>>

\* Verification: DBHelper.init, the two counts, db.close; any of them may
\* reject, which ends the script with code 1 after the restore was done
RestoreVerify ==
  /\ restore.pc = "verify"
  /\ \E ok \in BOOLEAN :
       restore' = RestoreEnds(restore, IF ok THEN 0 ELSE 1)
  /\ UNCHANGED <<migVars, clock, backupDir, preRestore, backup>>

\* One real migration may run between the other two scripts.
MigrationLimits ==
  [runs |-> 1, kills |-> 0, envChanges |-> 0, transient |-> 0,
   backups |-> MaxBackups]

BackupInit == InitWith(NumFiles, MigrationLimits)

MigrateStart == AllIdle /\ Start(FALSE)

BackupNext ==
  \/ Tick
  \/ BackupStart
  \/ BackupDatabase
  \/ BackupJSON
  \/ BackupCSV
  \/ BackupVerifyAndReport
  \/ BackupClose
  \/ RemoveArtefact
  \/ \E t \in Tokens \cup {NoToken} : RestoreStart(t)
  \/ \E a \in Answers : RestoreAnswer(a)
  \/ RestoreVerify
  \/ MigrateStart
  \/ \E id \in Ids : RunTask(id)
  \/ \E id \in Ids : Probe(id)
  \/ \E id \in Ids : Transfer(id)
  \/ \E id \in Ids : Update(id)
  \/ \E id \in Ids : Commit(id)
  \/ \E id \in Ids : Record(id)
  \/ \E id \in Ids : Rollback(id)
  \/ \E id \in Ids : RecordCaught(id)
  \/ Finish

BackupSpec == BackupInit /\ [][BackupNext]_vars

\* Several backups, taken at different times, and a restore that chooses
\* among them; no migration.
ListLimits ==
  [runs |-> 0, kills |-> 0, envChanges |-> 0, transient |-> 0,
   backups |-> MaxBackupsListed]

ListInit == InitWith(NumFiles, ListLimits)

ListNext ==
  \/ Tick
  \/ BackupStart
  \/ BackupDatabase
  \/ BackupJSON
  \/ BackupCSV
  \/ BackupVerifyAndReport
  \/ BackupClose
  \/ \E t \in Tokens \cup {NoToken} : RestoreStart(t)
  \/ \E a \in Answers : RestoreAnswer(a)
  \/ RestoreVerify

ListSpec == ListInit /\ [][ListNext]_vars

\* ================================================================ claims
\* the ledger a reader of the state file sees (nothing when the file is
\* absent or does not parse)
Persisted == IF stateFile.exists /\ Parses(stateFile) THEN stateFile.text[1]
             ELSE NoState

\* the last invocation ran to its end, was a real run, and nothing has been
\* started since
RealRunFinished ==
  mainPc = "idle" /\ hist.last.finished /\ ~hist.last.dry
    /\ hist.last.attempted # {}

\* C1: every committed row tagged 'aws-s3' has the public url of its own key
\* (under the uploader environment of the invocation that wrote it), and that
\* key is present in the R2 bucket, in every reachable state.
C1_DestinationRowsResolve ==
  \A i \in Ids :
    table[i].provider = "aws-s3" =>
      /\ Key(table[i]) \in r2
      /\ \E c \in Configs : table[i].url = PublicUrlUnder(c, Key(table[i]))

\* a real run in which one record was rewritten and committed although
\* another record of the same run failed
C1_Witness ==
  /\ RealRunFinished
  /\ \E i \in Ids : hist.outcome[i] = "success" /\ table[i].provider = "aws-s3"
  /\ \E j \in Ids : hist.outcome[j] = "failed"

C4_DryRunCallsNothing ==
  hist.dry =>
    \A i \in Ids :
      /\ hist.begin[i] = 0 /\ hist.commit[i] = 0 /\ hist.rollback[i] = 0
      /\ hist.download[i] = 0 /\ hist.upload[i] = 0 /\ hist.rewrite[i] = 0

\* a dry run that ran to its end over records whose keys were absent from
\* the bucket and over a record whose source is gone
C4_Witness ==
  /\ mainPc = "idle" /\ hist.last.finished /\ hist.last.dry
  /\ \E i \in Ids : hist.outcome[i] = "success"
  /\ \E j \in Ids : hist.outcome[j] = "skipped"

\* C5: a dry run never writes the state file.
C5_DryRunLeavesStateFile ==
  [][(mainPc = "running" /\ dryRun) => stateFile' = stateFile]_vars

\* two invocations in a row both ran to their end, with no change of the
\* outside world between them
TwoRunsInSuccession ==
  /\ mainPc = "idle"
  /\ hist.prev.finished /\ hist.last.finished
  /\ hist.last.sameEnv

\* C6: two dry runs in succession, nothing changed outside in between,
\* attempt the same records and report the same outcome for each.
C6_DryRunTwiceSame ==
  (TwoRunsInSuccession /\ hist.prev.dry /\ hist.last.dry) =>
    /\ hist.last.attempted = hist.prev.attempted
    /\ hist.last.outcome = hist.prev.outcome

\* C7 as stated: two real runs in succession, nothing changed outside in
\* between; the second run calls upload for no record.
C7_SecondRunUploadsNothing ==
  (TwoRunsInSuccession /\ ~hist.prev.dry /\ ~hist.last.dry) =>
    \A i \in Ids : hist.last.upload[i] = 0

\* C7 as amended: the second run calls upload only for a record that the
\* first run recorded as failed and whose key was still absent from the
\* bucket when the second run started.
C7_SecondRunUploadsOnlyFailedTransfers ==
  (TwoRunsInSuccession /\ ~hist.prev.dry /\ ~hist.last.dry) =>
    \A i \in Ids :
      hist.last.upload[i] > 0 =>
        /\ hist.prev.outcome[i] = "failed"
        /\ Key(table[i]) \notin hist.r2AtStart

\* a second real run that retried a record the first run had recorded as
\* failed, after a first run that also recorded a success
C7_Witness ==
  /\ TwoRunsInSuccession /\ ~hist.prev.dry /\ ~hist.last.dry
  /\ \E i \in Ids : hist.prev.outcome[i] = "failed" /\ i \in hist.last.attempted
  /\ \E j \in Ids : hist.prev.outcome[j] = "success"

\* C8: records 1 and 2 share one key; when a real run processes both with a
\* healthy environment and the key absent at its start, upload is called
\* exactly once for the two and both rows are rewritten.
C8_SharedKeyUploadedOnce ==
  ( /\ RealRunFinished
    /\ {1, 2} \subseteq hist.last.attempted
    /\ Key(table[1]) = Key(table[2])
    /\ Key(table[1]) \notin hist.r2AtStart
    /\ hist.envChanges = 0 )
  => /\ hist.upload[1] + hist.upload[2] = 1
     /\ table[1].provider = "aws-s3"
     /\ table[2].provider = "aws-s3"

\* ids of the three collections of a ledger
LedgerIds(st) ==
  <<IdsOf(st.processed_files), IdsOf(st.failed_files),
    IdsOf(st.skipped_files)>>

\* the ledger of the state file as it was when the process was killed
PreKill == IF hist.preKill.exists /\ Parses(hist.preKill)
           THEN hist.preKill.text[1] ELSE NoState

\* the collection a recorded outcome belongs to
CollectionOf(st, outcome) ==
  CASE outcome = "success" -> IdsOf(st.processed_files)
    [] outcome = "failed" -> IdsOf(st.failed_files)
    [] outcome = "skipped" -> IdsOf(st.skipped_files)
    [] OTHER -> Ids

\* C9: while a real run is going, every record whose outcome has been
\* recorded has its entry in the state file; and once the process has been
\* killed and started again, the ids of each collection of the state file
\* include the ids the file held in that collection before the kill.
C9_KillLosesNoRecordedOutcome ==
  /\ (mainPc = "running" /\ ~dryRun) =>
       \A i \in Ids : i \in CollectionOf(Persisted, hist.outcome[i])
  /\ (mainPc = "idle" /\ hist.prev.exit = 130 /\ ~hist.prev.dry
        /\ hist.last.ended /\ ~hist.last.dry) =>
       \A c \in 1..3 : LedgerIds(PreKill)[c] \subseteq LedgerIds(Persisted)[c]

\* C10: no id is in more than one of processed_files, failed_files and
\* skipped_files of the state file.
C10_CollectionsDisjoint ==
  LET l == LedgerIds(Persisted)
  IN  l[1] \cap l[2] = {} /\ l[1] \cap l[3] = {} /\ l[2] \cap l[3] = {}

\* all ids of a ledger, whatever the collection
AllLedgerIds(st) ==
  IdsOf(st.processed_files) \cup IdsOf(st.failed_files)
    \cup IdsOf(st.skipped_files)

\* the ledger of the state file as the last invocation found it
LedgerAtStart == IF hist.fileAtStart.exists /\ Parses(hist.fileAtStart)
                 THEN hist.fileAtStart.text[1] ELSE NoState

\* the last invocation processed records and set a terminal status
RunReachedTerminalStatus ==
  mainPc = "idle" /\ hist.last.finished /\ hist.last.attempted # {}

\* C11 as stated: once a run has reached a terminal status, the ids of the
\* three collections of the state file are exactly the records that were
\* tagged source when the run started, for a first and for a resumed run.
C11_LedgerIdsAreSourceRecords ==
  RunReachedTerminalStatus =>
    AllLedgerIds(Persisted) = hist.sourceAtStart

\* C11 as amended: the ids are the records tagged source at the start of the
\* run together with the ids the state file already held; for a run that
\* found no state file that is exactly the records tagged source.
C11_LedgerIdsAreSourceAndEarlierIds ==
  RunReachedTerminalStatus =>
    AllLedgerIds(Persisted) =
      hist.sourceAtStart \cup AllLedgerIds(LedgerAtStart)

\* a resumed run reached a terminal status with a ledger that still holds a
\* record an earlier run had migrated, and with a skipped record
C11_Witness ==
  /\ RunReachedTerminalStatus
  /\ hist.fileAtStart.exists
  /\ AllLedgerIds(Persisted) # hist.sourceAtStart
  /\ \E i \in Ids : hist.outcome[i] = "skipped"

\* entries of one id in a collection, and in the three collections together
CountIn(coll, id) == Cardinality({k \in 1..Len(coll) : coll[k].id = id})
EntriesOf(st, id) ==
  CountIn(st.processed_files, id) + CountIn(st.failed_files, id)
    + CountIn(st.skipped_files, id)

\* the step with which an invocation that processed records ends by itself:
\* main returns, or main's catch calls process.exit(1)
RunEndsByItself ==
  mainPc = "running" /\ mainPc' = "idle" /\ hist'.kills = hist.kills

\* C12: when a run ends, every record it attempted has got exactly one new
\* ledger entry in the state file, and its upload and its database rewrite
\* were each called at most once.
C12_EachRecordProcessedOnce ==
  [][RunEndsByItself =>
       \A i \in hist.attempted :
         /\ EntriesOf(Persisted', i) = EntriesOf(LedgerAtStart, i) + 1
         /\ hist.upload[i] <= 1
         /\ hist.rewrite[i] <= 1]_vars

\* the source probe of record i answered 404 in the current invocation
SourceNotFound(i) == result[i].status = "skipped"

C14_MissingSourceOpensNoTransaction ==
  \A i \in Ids :
    SourceNotFound(i) =>
      hist.begin[i] = 0 /\ hist.commit[i] = 0 /\ hist.rollback[i] = 0

FailedInLastRun == {i \in Ids : hist.last.outcome[i] = "failed"}

\* C15: when a run finishes, the persisted status is 'completed' if no record
\* ended failed in that run and 'completed_with_errors' otherwise, for a
\* fresh run and for a run resumed from a state file that records failures.
C15_StatusCompletedIffNoFailureInRun ==
  RunReachedTerminalStatus =>
    /\ Persisted.status \in {"completed", "completed_with_errors"}
    /\ Persisted.status = "completed" <=> FailedInLastRun = {}

\* C16: once the worker pool has started, a run that is not terminated from
\* outside reaches a terminal status and exits with code 0, whatever fails
\* while a record is processed.
C16_RecordFailuresNeverEndTheRun ==
  [][RunEndsByItself =>
       /\ exitCode' = 0
       /\ Persisted'.status \in {"completed", "completed_with_errors"}
       /\ \A i \in hist.attempted : hist.outcome[i] # "none"]_vars

\* C17: with a malformed destination endpoint and no custom public domain a
\* migrate invocation does not get as far as the worker pool: nothing is
\* downloaded or uploaded and no ledger entry is written.
C17_MalformedEndpointAbortsAtStartup ==
  (mainPc = "running" /\ PublicUrlThrows) =>
    \A i \in Ids :
      /\ pc[i] \in {"none", "queued"}
      /\ hist.download[i] = 0 /\ hist.upload[i] = 0
      /\ hist.outcome[i] = "none"

\* --------------------------------------------- claims on backup and restore
\* the three artefacts the report vouches for
BackupArtefacts(b) == {b.databaseBackup, b.jsonBackup, b.csvBackup}

\* this step writes the report
ReportWritten == backup.report = NoPath /\ backup'.report # NoPath

\* this step ends the backup script
BackupEnded == backup.pc # "idle" /\ backup'.pc = "idle"

\* C18: the backup script writes its report (status COMPLETED) and exits 0
\* only if the database snapshot, the JSON export and the CSV mapping were
\* all written by it and exist at that moment; when writing one of the three
\* fails the script ends with a non-zero exit code and without a report.
C18_ReportOnlyWithAllArtefacts ==
  [][/\ ReportWritten =>
          /\ ReadFile(backupDir', backup'.report).what = "COMPLETED"
          /\ \A p \in BackupArtefacts(backup') :
               p # NoPath /\ Exists(backupDir', p)
     /\ (BackupEnded /\ backup'.exit = 0 /\ backup'.total > 0) =>
          /\ backup'.report # NoPath
          /\ \A p \in BackupArtefacts(backup') : p # NoPath
     /\ (BackupEnded /\ backup'.failed \in {"database", "json", "csv"}) =>
          backup'.exit # 0 /\ backup'.report = NoPath]_vars

\* a backup wrote its three artefacts and its report and ended with code 0
C18_Witness ==
  /\ backup.pc = "idle" /\ backup.exit = 0
  /\ backup.report # NoPath /\ Exists(backupDir, backup.report)
  /\ \A p \in BackupArtefacts(backup) : Exists(backupDir, p)

\* the restore script takes a step and leaves the database and the
\* pre-restore copy as they are
RestoreLeavesDatabase == table' = table /\ preRestore' = preRestore

\* C19 (as stated): the restore script changes nothing before the user has
\* confirmed, and an answer other than y or yes leaves the live database
\* unchanged, makes no pre-restore copy and ends the script with code 0.
C19_OnlyLowerCaseYesRestores ==
  [][/\ (restore' # restore /\ ~restore'.confirmed) => RestoreLeavesDatabase
     /\ \A a \in Answers \ {"y", "yes"} :
          RestoreAnswer(a) =>
            /\ RestoreLeavesDatabase
            /\ restore'.pc = "idle" /\ restore'.exit = 0]_vars

\* y and yes in any letter case
YesInAnyCase == {"y", "Y", "yes", "Yes", "YES"}

\* C19 (amended): the restore script changes nothing before the user has
\* confirmed, and an answer other than y or yes in any letter case leaves
\* the live database unchanged, makes no pre-restore copy and ends the
\* script with code 0.
C19_UnconfirmedRestoreLeavesDatabase ==
  [][/\ (restore' # restore /\ ~restore'.confirmed) => RestoreLeavesDatabase
     /\ \A a \in Answers \ YesInAnyCase :
          RestoreAnswer(a) =>
            /\ RestoreLeavesDatabase
            /\ restore'.pc = "idle" /\ restore'.exit = 0]_vars

\* the user declined a restore that would have changed the database: the
\* snapshot differs from the live rows, which are those of after a migration
C19_Witness ==
  /\ restore.pc = "idle" /\ restore.runs > 0
  /\ ~restore.confirmed /\ restore.exit = 0
  /\ Exists(backupDir, restore.dbBackup)
  /\ ReadFile(backupDir, restore.dbBackup).what = "snapshot"
  /\ ReadFile(backupDir, restore.dbBackup).rows # table
  /\ ~preRestore.exists

\* C20: on either backend a restore that has run has first made a safety
\* copy of the live database's content of before the restore.
C20_SafetyCopyBeforeOverwrite ==
  [][(restore.pc = "prompt" /\ restore'.pc = "verify") =>
       (preRestore'.exists /\ preRestore'.rows = table)]_vars

\* the last backup invocation wrote its report and ended with code 0
BackupCompleted ==
  backup.pc = "idle" /\ backup.exit = 0 /\ backup.report # NoPath

\* the four artefacts of the last backup invocation
BackupFiles(b) == BackupArtefacts(b) \cup {b.report}

\* the names of one BackupSet
FilesOf(set) == {set.files[k] : k \in 1..Len(set.files)}

\* C21: the four artefacts of one completed backup invocation carry one
\* timestamp, and listBackups returns them together in one BackupSet,
\* whatever the directory order and whatever the clock read at each write.
C21_ArtefactsShareOneBackupSet ==
  BackupCompleted =>
    /\ \A p, q \in BackupFiles(backup) : p.ts = q.ts
    /\ \A order \in Listings(backupDir) :
         \E k \in 1..Len(listBackups(order)) :
           \A p \in BackupFiles(backup) :
             Exists(backupDir, p) => p \in FilesOf(listBackups(order)[k])

\* SELECT COUNT(*) as count FROM files WHERE provider = ?
getFileCountByProvider(rows, provider) ==
  Cardinality({i \in DOMAIN rows : rows[i].provider = provider})

Providers == {"cloudinary", "aws-s3"}

\* this step is a confirmed restore from a database snapshot that a backup
\* wrote
RestoredFromSnapshot ==
  /\ restore.pc = "prompt" /\ restore'.pc = "verify"
  /\ ReadFile(backupDir, restore.dbBackup).what = "snapshot"

NewestFirst(sets) ==
  \A k \in 1..(Len(sets) - 1) : sets[k].timestamp > sets[k + 1].timestamp

\* the newest token among the names listBackups looks at
NewestToken(dir) ==
  LET toks == {TokenOf(f.name) : f \in {g \in dir : Matches(g.name)}}
  IN  CHOOSE t \in toks : \A u \in toks : u <= t

\* C22: whatever backups are in the directory and in whatever order the
\* directory lists them, listBackups returns the backup sets newest first,
\* and a restore started without --backup chooses a file of the newest set.
C22_NewestBackupFirst ==
  [][/\ \A order \in Listings(backupDir') : NewestFirst(listBackups(order))
     /\ (RestoreStart(NoToken) /\ restore'.pc = "prompt") =>
          TokenOf(restore'.dbBackup) = NewestToken(backupDir)]_vars

\* ---------------------------------------------------------------- C24
\* record i's transaction scope is open: its worker has issued
\* beginTransaction in this real run and neither commit nor rollback yet
InScope(i) ==
  /\ mainPc = "running" /\ ~dryRun
  /\ hist.begin[i] > 0 /\ hist.commit[i] = 0 /\ hist.rollback[i] = 0

\* this step is a call of record j's worker on the connection
DbCallBy(j) ==
  \E what \in {"begin", "rewrite", "commit", "rollback"} :
    hist'[what][j] > hist[what][j]

\* C24: in a real run, between a worker's beginTransaction and that
\* worker's commit or rollback no other worker issues beginTransaction, a
\* row rewrite, commit or rollback on the same connection.
C24_OneTransactionScopeAtATime ==
  [][\A j \in Ids : DbCallBy(j) => \A i \in Ids \ {j} : ~InScope(i)]_vars

\* ---------------------------------------------------------------- C25
\* migrateFile returned 'failed' for record i: a step between the
\* destination probe and the database rewrite threw
StepFailed(i) == result[i].status = "failed"

\* C25: in a real run, a record whose destination probe, download, upload or
\* rewrite failed has had rollback issued by its worker once it is recorded,
\* and is recorded as failed; commit is issued only for a record whose
\* outcome is success.
C25_FailedStepRollsBack ==
  (mainPc = "running" /\ ~dryRun) =>
    \A i \in Ids :
      /\ (StepFailed(i) /\ pc[i] = "done") =>
           hist.rollback[i] > 0 /\ hist.outcome[i] = "failed"
      /\ hist.commit[i] > 0 => result[i].status = "success"

\* ---------------------------------------------------------------- C26
\* C26: while a run is going, every step that changes the Migration State in
\* memory also writes that very state to the state file (no other worker's
\* update falls between the update and the flush), and the state file holds
\* the entry of every record whose outcome has been recorded in memory.
C26_UpdateAndFlushAreOneStep ==
  [][(mainPc = "running" /\ mainPc' = "running") =>
       /\ state' # state => stateFile' = saveState(state')
       /\ \A i \in Ids : hist'.outcome[i] # "none" =>
            /\ Parses(stateFile')
            /\ i \in CollectionOf(stateFile'.text[1], hist'.outcome[i])]_vars

\* two workers of one run have both recorded their outcome, and the file
\* holds the state with both
C26_Witness ==
  /\ mainPc = "running" /\ processed = 2
  /\ \A i \in Ids : hist.outcome[i] # "none"
  /\ stateFile = saveState(state)
  /\ Len(state.processed_files) + Len(state.failed_files)
       + Len(state.skipped_files) >= 2

\* ---------------------------------------------------------------- C27
\* the source probe of record i ends with an error other than a not-found
\* response
SourceProbeErrs(i) == i \in FileIds(files) /\ headStatus(src[i]) = 0

\* C27: a record whose source probe fails with anything other than not-found
\* is never downloaded, uploaded or rewritten and gets no outcome other than
\* failed; a record is skipped only when the probe answered not-found.
C27_ProbeErrorFailsRecord ==
  mainPc = "running" =>
    \A i \in Ids :
      /\ SourceProbeErrs(i) =>
           /\ hist.download[i] = 0 /\ hist.upload[i] = 0
           /\ hist.rewrite[i] = 0
           /\ hist.outcome[i] \in {"none", "failed"}
      /\ hist.outcome[i] = "skipped" => headStatus(src[i]) = 404

\* ---------------------------------------------------------------- C29
\* in this real run uploader.fileExists(key) answered true for record i
FoundPresent(i) == mainPc = "running" /\ ~dryRun /\ i \in hist.present

DownloadExhausted(i) == hist.downloaded[i] = "failed"

\* the entries of record i in failed_files of the state in memory
FailedEntries(i) ==
  {state.failed_files[k] : k \in {n \in 1..Len(state.failed_files) :
                                    state.failed_files[n].id = i}}

\* C28: a record is downloaded by at most one call that sends at most 3
\* requests; after failed request k (k = 1, 2) the call sleeps k units of
\* delay and it does not sleep after the third; when all 3 requests have
\* failed the record is neither uploaded nor rewritten, migrateFile returns
\* failed with the download as its cause, and no other outcome is recorded
\* for it.
C28_DownloadRetriedWithBackoff ==
  \A i \in Ids :
    /\ hist.download[i] <= 1
    /\ hist.attempts[i] <= Retries
    /\ Len(hist.waits[i]) =
         (IF hist.attempts[i] = 0 THEN 0 ELSE hist.attempts[i] - 1)
    /\ \A k \in 1..Len(hist.waits[i]) : hist.waits[i][k] = k * DelayUnit
    /\ DownloadExhausted(i) =>
         /\ hist.attempts[i] = Retries
         /\ hist.upload[i] = 0 /\ hist.rewrite[i] = 0
         /\ hist.outcome[i] \in {"none", "failed"}
         /\ mainPc = "running" =>
              /\ result[i] = [status |-> "failed", detail |-> "download"]
              /\ \A e \in FailedEntries(i) : e.error = "download"
              /\ pc[i] = "done" => FailedEntries(i) # {}

\* a record whose three requests all failed, with the two delays slept, is
\* recorded as failed while the other record was downloaded at its third
\* request
C28_Witness ==
  \E i, j \in Ids :
    /\ DownloadExhausted(i) /\ hist.attempts[i] = 3
    /\ hist.waits[i] = <<DelayUnit, 2 * DelayUnit>>
    /\ hist.outcome[i] = "failed"
    /\ hist.downloaded[j] = "success" /\ hist.attempts[j] = 3
    /\ hist.upload[j] = 1

\* ---------------------------------------------------------------- C30
\* the records between the start and the completion of their procedure
InFlight == {i \in Ids : Active(i)}

\* C30: at every moment of a run at most CONCURRENCY (3) records are between
\* the start and the completion of their per-record procedure.
C30_AtMostThreeInFlight == Cardinality(InFlight) <= CONCURRENCY

\* a record is done, the pool is full again, and a record still waits
C30_Witness ==
  /\ mainPc = "running"
  /\ Len(files) > CONCURRENCY
  /\ Cardinality(InFlight) = CONCURRENCY
  /\ \E j \in Ids : pc[j] = "queued"
  /\ \E j \in Ids : pc[j] = "done"

\* ---------------------------------------------------------------- C31
\* an invocation is about to start and every Cloudinary row it will be
\* given has its id in processed_files of the state it will load
NothingOutstanding ==
  /\ mainPc = "idle"
  /\ stateFile.exists => Parses(stateFile)
  /\ \A k \in 1..Len(getCloudinaryFiles) :
       getCloudinaryFiles[k].id \in IdsOf(loadState.processed_files)

\* C31: a run that finds zero outstanding records starts no task (hence no
\* probe of the source or of the destination), downloads, uploads and
\* rewrites nothing, opens no transaction, leaves the rows, the bucket and
\* the state file as they were, and ends with exit code 0.
C31_NothingOutstandingIsNoOp ==
  [][(NothingOutstanding /\ \E d \in BOOLEAN : Start(d)) =>
       /\ mainPc' = "idle" /\ exitCode' = 0
       /\ \A i \in Ids : pc'[i] = "none"
       /\ stateFile' = stateFile /\ table' = table /\ r2' = r2 /\ tx' = tx
       /\ hist'.last.finished /\ hist'.last.exit = 0
       /\ hist'.last.attempted = {}
       /\ hist'.present = {}
       /\ \A i \in Ids :
            /\ hist'.begin[i] = 0 /\ hist'.download[i] = 0
            /\ hist'.attempts[i] = 0 /\ hist'.upload[i] = 0
            /\ hist'.rewrite[i] = 0 /\ hist'.commit[i] = 0
            /\ hist'.outcome[i] = "none"]_vars

\* a second invocation has found nothing outstanding and has ended with
\* exit code 0, the state file being the one it found
C31_Witness ==
  /\ mainPc = "idle" /\ exitCode = 0
  /\ hist.runNo = 2
  /\ hist.prev.finished /\ hist.prev.attempted # {}
  /\ hist.last.finished /\ hist.last.attempted = {}
  /\ stateFile = hist.fileAtStart /\ stateFile.exists

\* ---------------------------------------------------------------- C32
\* C32: in the state the state file holds, statistics.processed equals
\* statistics.success + statistics.failed + statistics.skipped, and each of
\* these three counters equals the number of entries of its collection.
C32_CountersMatchLedger ==
  LET st == Persisted
      n == st.statistics
  IN  /\ n.processed = n.success + n.failed + n.skipped
      /\ n.success = Len(st.processed_files)
      /\ n.failed = Len(st.failed_files)
      /\ n.skipped = Len(st.skipped_files)

\* ---------------------------------------------------------------- C33
\* the running invocation has flushed the state file for at least one
\* record; its final flush comes only with its end
FlushedMidRun == mainPc = "running" /\ processed > 0

\* C33: a state file flushed by an invocation that is still running, fresh
\* or resumed, has status in_progress and end_time null; the terminal status
\* and the end time are written only by the flush that ends the invocation.
C33_MidRunFlushIsInProgress ==
  FlushedMidRun =>
    /\ stateFile = saveState(state)
    /\ Persisted.status = "in_progress"
    /\ Persisted.end_time = "null"

====
